---------------------------- MODULE Spec2Model ----------------------------
(***************************************************************************)
(* Model of main.c of the CCM MQTT OTA-and-subscribe example: the host     *)
(* drives the CCM module over AT commands (provisioning, subscription,     *)
(* drain of the event queue) and then serves the module's events, which    *)
(* the module signals on the event pin (gpio_interrupt_handler).           *)
(*                                                                         *)
(* The main thread is a program counter over the statements of main(),     *)
(* wifionboarding() and empty_event_queue(); the labels are the source     *)
(* lines ("L171" is the statement at line 171).  A call of                 *)
(* at_command_send_receive takes two steps, the command written to the     *)
(* module and the reply (or the timeout) taken from it, and the interrupt  *)
(* may fire between any two steps.  The build options AWS_FLOW and         *)
(* CIRRENT_APP_ONBOARDING are chosen at the start; the option              *)
(* MODIFY_SSID_AFTER_CONNECTED is 0 as at line 20, so line 103 is not      *)
(* part of the program.                                                    *)
(***************************************************************************)
EXTENDS Integers, Sequences, FiniteSets, TLC

\* ------------------------------------------------------------------ bounds
\* iterations of each status polling loop (lines 153 and 231) per boot
MaxPoll == 2
\* AT+EVENT? queries of the drain loop (line 256) per boot
MaxDrain == 2
\* passes of the main loop (line 168) per boot
MaxPass == 2
\* host resets over the whole run
MaxResets == 1
\* interrupts raised per boot
MaxIntr == 3

\* --------------------------------------------------------------- constants
SUCCESS == 1
FAILURE == 0

\* A char* is <<>> (the null pointer) or <<s>>, s the text it points to; a
\* text is the sequence of its character codes, without the closing NUL.
NULL == <<>>
Ptr(s) == <<s>>
Deref(p) == p[1]

\* "OK 1 1 MSG\r\n"
MSG_EVENT == <<79, 75, 32, 49, 32, 49, 32, 77, 83, 71, 13, 10>>
\* "OK 5 1 OTA\r\n"
OTA_OFFER_EVENT == <<79, 75, 32, 53, 32, 49, 32, 79, 84, 65, 13, 10>>
\* "OK 5 4 OTA\r\n"
OTA_VERIFIED_EVENT == <<79, 75, 32, 53, 32, 52, 32, 79, 84, 65, 13, 10>>
\* "OK 2 0 STARTUP\r\n"
STARTUP_EVENT == <<79, 75, 32, 50, 32, 48, 32, 83, 84, 65, 82, 84, 85, 80, 13, 10>>
\* "OK 1 CONNECTED\r\n"
CONNECTED_REPLY == <<79, 75, 32, 49, 32, 67, 79, 78, 78, 69, 67, 84, 69, 68, 13, 10>>
\* "OK\r\n"
IDLE_REPLY == <<79, 75, 13, 10>>

\* The commands, as the text written to the module.
SET_SSID == "AT+CONF SSID=\n"
SET_PASSPHRASE == "AT+CONF Passphrase=\n"
SET_ENDPOINT == "AT+CONF Endpoint=\n"
AT_CONNECT == "AT+CONNECT\n"
AT_CLOUD_SYNC == "AT+CLOUD_SYNC\n"
AT_TOPIC == "AT+CONF Topic1=data\n"
AT_SUBSCRIBE == "AT+SUBSCRIBE1\n"
AT_EVENT == "AT+EVENT?\n"
AT_GET == "AT+GET1\n"
AT_OTA_ACCEPT == "AT+OTA ACCEPT\n"
AT_OTA_APPLY == "AT+OTA APPLY\n"
AT_CONFMODE == "AT+CONFMODE\n"
\* The two status queries of CCM.h, named by the function that sends them.
AWS_STATUS == "is_aws_connected"
WIFI_STATUS == "is_wifi_connected"
\* The entry of the log that is not a command.
HANDLE_ERROR == "handle_error"
NoCmd == "none"

Patterns == {MSG_EVENT, OTA_OFFER_EVENT, OTA_VERIFIED_EVENT, STARTUP_EVENT}

\* "OK 1 1 MSG", a descriptor without its line end
MSG_CUT == SubSeq(MSG_EVENT, 1, Len(MSG_EVENT) - 2)
\* "OK 2 0 STARTUP\r\nOK\r\n", a descriptor with more text after it
STARTUP_MORE == STARTUP_EVENT \o IDLE_REPLY

\* The texts the module is taken to reply with: the four event descriptors,
\* a proper prefix of one and one that is a proper prefix of the reply, the
\* idle-queue reply, the cloud-connected reply and the empty text.
ReplyTexts ==
    Patterns \cup {MSG_CUT, STARTUP_MORE, IDLE_REPLY, CONNECTED_REPLY, <<>>}

\* What a call can get from the module: a reply text, or NULL for a timeout.
Replies == {Ptr(t) : t \in ReplyTexts} \cup {NULL}

\* strcmp of the C library on two texts: the difference of the first pair of
\* characters that differ, the closing NUL (0) included; 0 when equal.
CharAt(s, i) == IF i <= Len(s) THEN s[i] ELSE 0

RECURSIVE strcmp_from(_, _, _)
strcmp_from(a, b, i) ==
    IF CharAt(a, i) # CharAt(b, i) THEN CharAt(a, i) - CharAt(b, i)
    ELSE IF CharAt(a, i) = 0 THEN 0
    ELSE strcmp_from(a, b, i + 1)

strcmp(a, b) == strcmp_from(a, b, 1)

\* The outcome of at_command_send_receive for the module's reply (NULL: no
\* reply within the timeout): result and the returned body.
at_command_outcome(reply, expected) ==
    IF reply = NULL THEN [result |-> FAILURE, body |-> NULL]
    ELSE IF expected = NULL \/ reply = expected
         THEN [result |-> SUCCESS, body |-> reply]
         ELSE [result |-> FAILURE, body |-> reply]

VARIABLES
    AWS_FLOW,                    \* the build options of lines 23 and 26
    CIRRENT_APP_ONBOARDING,
    pc,                 \* the statement the main thread is at
    outstanding,        \* the command waiting for its reply, or NoCmd
    gpio_intr_flag,     \* line 54
    result,             \* line 55
    response,           \* line 56
    drain_result,       \* result of empty_event_queue (line 254)
    log,                \* history: commands sent and handle_error calls
                        \* of this boot
    lastReply,          \* history: what the last of the calls of lines
                        \* 122, 239, 242 and 258 got from the module
    awsReads,           \* history: the cloud status reads of this boot
    wifiReads,          \* history: the Wi-Fi status reads of this boot
    pass,               \* history: the current pass of the main loop
    polls,              \* history: polling iterations of this boot
    drains,             \* history: drain queries of this boot
    passes,             \* history: main-loop passes begun in this boot
    resets,             \* history: host resets
    interrupts,         \* history: interrupts raised in this boot
    unserved            \* history: an interrupt was raised and no AT+EVENT?
                        \* has been sent since

config == <<AWS_FLOW, CIRRENT_APP_ONBOARDING>>
globals == <<gpio_intr_flag, result, response>>
wire == <<log, lastReply, unserved>>
status == <<awsReads, wifiReads>>
counters == <<polls, drains, resets, interrupts>>
loop == <<pass, passes>>
vars == <<config, pc, outstanding, globals, drain_result, wire, status,
          counters, loop>>

\* The record of a main-loop pass: the flag was observed true, the event
\* queries sent, the reply classified, the actions begun, the flag cleared.
NoPass == [observed |-> FALSE, queries |-> 0, classified |-> FALSE,
           actions |-> <<>>, cleared |-> FALSE]

\* The state of a fresh boot: globals as initialised at lines 54-56.
Init ==
    /\ AWS_FLOW \in BOOLEAN
    /\ CIRRENT_APP_ONBOARDING \in BOOLEAN
    /\ pc = "L86"
    /\ outstanding = NoCmd
    /\ gpio_intr_flag = FALSE
    /\ result = 0
    /\ response = NULL
    /\ drain_result = 0
    /\ log = <<>>
    /\ lastReply = NULL
    /\ awsReads = <<>>
    /\ wifiReads = <<>>
    /\ pass = NoPass
    /\ polls = 0
    /\ drains = 0
    /\ passes = 0
    /\ resets = 0
    /\ interrupts = 0
    /\ unserved = FALSE

\* ------------------------------------------------------------ the engine
\* at_command_send_receive, first half: the command is written to the module.
at_send(cmd) ==
    /\ outstanding = NoCmd
    /\ outstanding' = cmd
    /\ log' = Append(log, cmd)
    /\ unserved' = IF cmd = AT_EVENT THEN FALSE ELSE unserved
    /\ UNCHANGED lastReply

\* at_command_send_receive, second half: the reply, or the timeout.
at_receive(cmd, reply) ==
    /\ outstanding = cmd
    /\ reply \in Replies
    /\ outstanding' = NoCmd
    /\ UNCHANGED <<log, unserved>>

\* Call with its failure taken as fatal, as line 124 does for the connect.
Call_fatal(at, cmd, next) ==
    /\ pc = at
    /\ \/ /\ at_send(cmd)
          /\ UNCHANGED <<pc, result>>
       \/ \E reply \in Replies :
             /\ outstanding = cmd
             /\ outstanding' = NoCmd
             /\ result' = at_command_outcome(reply, NULL).result
             /\ IF result' # SUCCESS
                THEN pc' = "halt" /\ log' = Append(log, "handle_error")
                ELSE pc' = next /\ UNCHANGED log
             /\ UNCHANGED <<lastReply, unserved>>
    /\ UNCHANGED <<config, gpio_intr_flag, response, drain_result, status,
                   counters, loop>>

\* at_command_send_receive(cmd, RESPONSE_DELAY, &result, NULL) as a statement:
\* the returned body is dropped, the global result takes the status.
Call(at, cmd, next) ==
    /\ pc = at
    /\ \/ /\ at_send(cmd)
          /\ UNCHANGED <<pc, result>>
       \/ \E reply \in Replies :
             /\ at_receive(cmd, reply)
             /\ result' = at_command_outcome(reply, NULL).result
             /\ pc' = next
             /\ UNCHANGED lastReply
    /\ UNCHANGED <<config, gpio_intr_flag, response, drain_result, status,
                   counters, loop>>

\* What is_aws_connected() and is_wifi_connected() can read from the module.
StatusReads == BOOLEAN

\* handle_error() does not return: the main thread stops there.
handle_error_pc == "halt"

\* The statement after wifionboarding() returns (lines 119 and 140).
AfterOnboarding == IF AWS_FLOW THEN "L122" ELSE "L143"

\* The first statement of wifionboarding() (line 224).
OnboardingEntry == IF CIRRENT_APP_ONBOARDING THEN "L227" ELSE "L239"

\* -------------------------------------------------------------- main()
\* Lines 86-98: board, UART and event-pin set-up; the interrupt is enabled.
Boot ==
    /\ pc = "L86"
    /\ pc' = "L109"
    /\ UNCHANGED <<config, outstanding, globals, drain_result, wire, status,
                   counters, loop>>

\* CheckAws with the provisioning run whatever the status reads.
CheckAws_always ==
    /\ pc = "L109"
    /\ \/ /\ at_send(AWS_STATUS)
          /\ UNCHANGED <<pc, awsReads>>
       \/ \E connected \in StatusReads :
             /\ outstanding = AWS_STATUS
             /\ outstanding' = NoCmd
             /\ awsReads' = Append(awsReads, connected)
             /\ pc' = IF AWS_FLOW THEN "L113" ELSE "L137"
             /\ UNCHANGED wire
    /\ UNCHANGED <<config, globals, drain_result, wifiReads, counters, loop>>

\* Lines 109 and 133: if (!is_aws_connected()).
CheckAws ==
    /\ pc = "L109"
    /\ \/ /\ at_send(AWS_STATUS)
          /\ UNCHANGED <<pc, awsReads>>
       \/ \E connected \in StatusReads :
             /\ outstanding = AWS_STATUS
             /\ outstanding' = NoCmd
             /\ awsReads' = Append(awsReads, connected)
             /\ pc' = IF connected THEN "L159"
                      ELSE IF AWS_FLOW THEN "L113" ELSE "L137"
             /\ UNCHANGED wire
    /\ UNCHANGED <<config, globals, drain_result, wifiReads, counters, loop>>

\* Line 113.
SetEndpoint == Call("L113", SET_ENDPOINT, "L116")

\* CheckWifi with the test of the status inverted.
CheckWifi_inverted ==
    /\ pc \in {"L116", "L137"}
    /\ \/ /\ at_send(WIFI_STATUS)
          /\ UNCHANGED <<pc, wifiReads>>
       \/ \E connected \in StatusReads :
             /\ outstanding = WIFI_STATUS
             /\ outstanding' = NoCmd
             /\ wifiReads' = Append(wifiReads, connected)
             /\ pc' = IF connected THEN OnboardingEntry ELSE AfterOnboarding
             /\ UNCHANGED wire
    /\ UNCHANGED <<config, globals, drain_result, awsReads, counters, loop>>

\* Lines 116 and 137: if (!is_wifi_connected()) wifionboarding().
CheckWifi ==
    /\ pc \in {"L116", "L137"}
    /\ \/ /\ at_send(WIFI_STATUS)
          /\ UNCHANGED <<pc, wifiReads>>
       \/ \E connected \in StatusReads :
             /\ outstanding = WIFI_STATUS
             /\ outstanding' = NoCmd
             /\ wifiReads' = Append(wifiReads, connected)
             /\ pc' = IF connected THEN AfterOnboarding ELSE OnboardingEntry
             /\ UNCHANGED wire
    /\ UNCHANGED <<config, globals, drain_result, awsReads, counters, loop>>

\* Line 122: AT+CONNECT, waiting for "OK 1 CONNECTED\r\n".
Connect ==
    /\ pc = "L122"
    /\ \/ /\ at_send(AT_CONNECT)
          /\ UNCHANGED <<pc, result>>
       \/ \E reply \in Replies :
             /\ at_receive(AT_CONNECT, reply)
             /\ result' = at_command_outcome(reply, Ptr(CONNECTED_REPLY)).result
             /\ lastReply' = reply
             /\ pc' = "L124"
    /\ UNCHANGED <<config, gpio_intr_flag, response, drain_result, status,
                   counters, loop>>

\* CheckConnect with the result of the connect not looked at.
CheckConnect_unchecked ==
    /\ pc = "L124"
    /\ pc' = "L159"
    /\ UNCHANGED <<config, outstanding, globals, drain_result, wire, status,
                   counters, loop>>

\* Lines 124-127: if (result != SUCCESS) handle_error().
CheckConnect ==
    /\ pc = "L124"
    /\ IF result # SUCCESS
       THEN /\ log' = Append(log, HANDLE_ERROR)
            /\ pc' = handle_error_pc
       ELSE /\ pc' = "L159"
            /\ UNCHANGED log
    /\ UNCHANGED <<config, outstanding, globals, drain_result, lastReply,
                   unserved, status, counters, loop>>

\* Line 143.
ConnectLegacy == Call("L143", AT_CONNECT, "L146")

\* Line 146.
CloudSync == Call("L146", AT_CLOUD_SYNC, "L151")

\* Line 151: delay_ms(MAX_CONNECT_DELAY).
ConnectDelay ==
    /\ pc = "L151"
    /\ pc' = "L153"
    /\ UNCHANGED <<config, outstanding, globals, drain_result, wire, status,
                   counters, loop>>

\* WaitAws with one status query and no loop.
WaitAws_once ==
    /\ pc = "L153"
    /\ \/ /\ polls < MaxPoll
          /\ at_send(AWS_STATUS)
          /\ polls' = polls + 1
          /\ UNCHANGED <<pc, awsReads>>
       \/ \E connected \in StatusReads :
             /\ outstanding = AWS_STATUS
             /\ outstanding' = NoCmd
             /\ awsReads' = Append(awsReads, connected)
             /\ pc' = "L159"
             /\ UNCHANGED <<wire, polls>>
    /\ UNCHANGED <<config, globals, drain_result, wifiReads, drains, resets,
                   interrupts, loop>>

\* Lines 153-154: while (!is_aws_connected());
WaitAws ==
    /\ pc = "L153"
    /\ \/ /\ polls < MaxPoll
          /\ at_send(AWS_STATUS)
          /\ polls' = polls + 1
          /\ UNCHANGED <<pc, awsReads>>
       \/ \E connected \in StatusReads :
             /\ outstanding = AWS_STATUS
             /\ outstanding' = NoCmd
             /\ awsReads' = Append(awsReads, connected)
             /\ pc' = IF connected THEN "L159" ELSE "L153"
             /\ UNCHANGED <<wire, polls>>
    /\ UNCHANGED <<config, globals, drain_result, wifiReads, drains, resets,
                   interrupts, loop>>

\* Line 159.
SetTopic == Call("L159", AT_TOPIC, "L161")

\* Line 161; empty_event_queue() is entered next (line 163).
Subscribe == Call("L161", AT_SUBSCRIBE, "L254")

\* ------------------------------------------------------ wifionboarding()
\* Line 227.
ConfMode == Call("L227", AT_CONFMODE, "L231")

\* WaitWifi that gives up after its first status query.
WaitWifi_once ==
    /\ pc = "L231"
    /\ \/ /\ polls < MaxPoll
          /\ at_send(WIFI_STATUS)
          /\ polls' = polls + 1
          /\ UNCHANGED <<pc, wifiReads>>
       \/ \E connected \in StatusReads :
             /\ outstanding = WIFI_STATUS
             /\ outstanding' = NoCmd
             /\ wifiReads' = Append(wifiReads, connected)
             /\ pc' = AfterOnboarding
             /\ UNCHANGED <<wire, polls>>
    /\ UNCHANGED <<config, globals, drain_result, awsReads, drains, resets,
                   interrupts, loop>>

\* Line 231: while (!is_wifi_connected()).
WaitWifi ==
    /\ pc = "L231"
    /\ \/ /\ polls < MaxPoll
          /\ at_send(WIFI_STATUS)
          /\ polls' = polls + 1
          /\ UNCHANGED <<pc, wifiReads>>
       \/ \E connected \in StatusReads :
             /\ outstanding = WIFI_STATUS
             /\ outstanding' = NoCmd
             /\ wifiReads' = Append(wifiReads, connected)
             /\ pc' = IF connected THEN AfterOnboarding ELSE "L233"
             /\ UNCHANGED <<wire, polls>>
    /\ UNCHANGED <<config, globals, drain_result, awsReads, drains, resets,
                   interrupts, loop>>

\* Line 233: delay_ms(POLLING_DELAY).
PollingDelay ==
    /\ pc = "L233"
    /\ pc' = "L231"
    /\ UNCHANGED <<config, outstanding, globals, drain_result, wire, status,
                   counters, loop>>

\* SetSsid with the passphrase command in its place.
SetSsid_passphrase ==
    /\ pc = "L239"
    /\ \/ /\ at_send(SET_PASSPHRASE)
          /\ UNCHANGED <<pc, result>>
       \/ \E reply \in Replies :
             /\ at_receive(SET_PASSPHRASE, reply)
             /\ result' = at_command_outcome(reply, NULL).result
             /\ lastReply' = reply
             /\ pc' = "L242"
    /\ UNCHANGED <<config, gpio_intr_flag, response, drain_result, status,
                   counters, loop>>

\* Line 239.
SetSsid ==
    /\ pc = "L239"
    /\ \/ /\ at_send(SET_SSID)
          /\ UNCHANGED <<pc, result>>
       \/ \E reply \in Replies :
             /\ at_receive(SET_SSID, reply)
             /\ result' = at_command_outcome(reply, NULL).result
             /\ lastReply' = reply
             /\ pc' = "L242"
    /\ UNCHANGED <<config, gpio_intr_flag, response, drain_result, status,
                   counters, loop>>

\* Line 242; wifionboarding() returns.
SetPassphrase ==
    /\ pc = "L242"
    /\ \/ /\ at_send(SET_PASSPHRASE)
          /\ UNCHANGED <<pc, result>>
       \/ \E reply \in Replies :
             /\ at_receive(SET_PASSPHRASE, reply)
             /\ result' = at_command_outcome(reply, NULL).result
             /\ pc' = AfterOnboarding
             /\ lastReply' = reply
    /\ UNCHANGED <<config, gpio_intr_flag, response, drain_result, status,
                   counters, loop>>

\* --------------------------------------------------- empty_event_queue()
\* Line 254: int result = 0.
DrainEntry ==
    /\ pc = "L254"
    /\ drain_result' = 0
    /\ pc' = "L256"
    /\ UNCHANGED <<config, outstanding, globals, wire, status, counters, loop>>

\* Line 256: while (!result); the function returns into the main loop.
DrainTest ==
    /\ pc = "L256"
    /\ pc' = IF drain_result = 0 THEN "L258" ELSE "L168"
    /\ UNCHANGED <<config, outstanding, globals, drain_result, wire, status,
                   counters, loop>>

\* DrainQuery with the body kept in response, as line 171 does, and the
\* loop left for the chain of line 174 on a descriptor.
DrainQuery_dispatching ==
    /\ pc = "L258"
    /\ \/ /\ drains < MaxDrain
          /\ at_send(AT_EVENT)
          /\ drains' = drains + 1
          /\ UNCHANGED <<pc, drain_result, response>>
       \/ \E reply \in Replies :
             /\ at_receive(AT_EVENT, reply)
             /\ drain_result' = at_command_outcome(reply, Ptr(IDLE_REPLY)).result
             /\ response' = reply
             /\ lastReply' = reply
             /\ pc' = IF reply # NULL /\ Deref(reply) \in Patterns
                      THEN "L174" ELSE "L256"
             /\ UNCHANGED drains
    /\ UNCHANGED <<config, gpio_intr_flag, result, status, polls, resets,
                   interrupts, loop>>

\* DrainQuery with no expected reply: any reply ends the loop.
DrainQuery_any ==
    /\ pc = "L258"
    /\ \/ /\ drains < MaxDrain
          /\ at_send(AT_EVENT)
          /\ drains' = drains + 1
          /\ UNCHANGED <<pc, drain_result>>
       \/ \E reply \in Replies :
             /\ at_receive(AT_EVENT, reply)
             /\ drain_result' = at_command_outcome(reply, NULL).result
             /\ lastReply' = reply
             /\ pc' = "L256"
             /\ UNCHANGED drains
    /\ UNCHANGED <<config, globals, status, polls, resets, interrupts, loop>>

\* Line 258: AT+EVENT?, waiting for "OK\r\n", into the local result.
DrainQuery ==
    /\ pc = "L258"
    /\ \/ /\ drains < MaxDrain
          /\ at_send(AT_EVENT)
          /\ drains' = drains + 1
          /\ UNCHANGED <<pc, drain_result>>
       \/ \E reply \in Replies :
             /\ at_receive(AT_EVENT, reply)
             /\ drain_result' = at_command_outcome(reply, Ptr(IDLE_REPLY)).result
             /\ lastReply' = reply
             /\ pc' = "L256"
             /\ UNCHANGED drains
    /\ UNCHANGED <<config, globals, status, polls, resets, interrupts, loop>>

\* --------------------------------------------------------- the main loop
\* ObserveFlag without the test of the flag: the loop polls the module.
ObserveFlag_polling ==
    /\ pc = "L168"
    /\ passes < MaxPass
    /\ pc' = "L171"
    /\ passes' = passes + 1
    /\ pass' = [NoPass EXCEPT !.observed = TRUE]
    /\ UNCHANGED <<config, outstanding, globals, drain_result, wire, status,
                   counters>>

\* ObserveFlag with the flag cleared where it is read.
ObserveFlag_clearing ==
    /\ pc = "L168"
    /\ gpio_intr_flag
    /\ passes < MaxPass
    /\ pc' = "L171"
    /\ gpio_intr_flag' = FALSE
    /\ passes' = passes + 1
    /\ pass' = [NoPass EXCEPT !.observed = TRUE]
    /\ UNCHANGED <<config, outstanding, result, response, drain_result, wire,
                   status, counters>>

\* Line 168: if (gpio_intr_flag); a false flag leaves the loop where it is.
ObserveFlag ==
    /\ pc = "L168"
    /\ gpio_intr_flag
    /\ passes < MaxPass
    /\ pc' = "L171"
    /\ passes' = passes + 1
    /\ pass' = [NoPass EXCEPT !.observed = TRUE]
    /\ UNCHANGED <<config, outstanding, globals, drain_result, wire, status,
                   counters>>

\* Line 171: response = at_command_send_receive("AT+EVENT?\n", ...).
EventQuery ==
    /\ pc = "L171"
    /\ \/ /\ at_send(AT_EVENT)
          /\ pass' = [pass EXCEPT !.queries = @ + 1]
          /\ UNCHANGED <<pc, result, response>>
       \/ \E reply \in Replies :
             /\ at_receive(AT_EVENT, reply)
             /\ result' = at_command_outcome(reply, NULL).result
             /\ response' = at_command_outcome(reply, NULL).body
             /\ pc' = "L174"
             /\ UNCHANGED <<pass, lastReply>>
    /\ UNCHANGED <<config, gpio_intr_flag, drain_result, status, counters,
                   passes>>

\* Branch with strncmp over the length of the pattern in place of strcmp.
IsPrefix(p, t) == Len(t) >= Len(p) /\ SubSeq(t, 1, Len(p)) = p

Branch_prefix(text) ==
    IF IsPrefix(MSG_EVENT, text) THEN "L178"
    ELSE IF IsPrefix(OTA_OFFER_EVENT, text) THEN "L186"
    ELSE IF IsPrefix(OTA_VERIFIED_EVENT, text) THEN "L194"
    ELSE IF IsPrefix(STARTUP_EVENT, text) THEN "L202"
    ELSE "L205"

\* Branch with the flag cleared in the four branches only.
Branch_skipclear(text) ==
    IF strcmp(MSG_EVENT, text) = 0 THEN "L178"
    ELSE IF strcmp(OTA_OFFER_EVENT, text) = 0 THEN "L186"
    ELSE IF strcmp(OTA_VERIFIED_EVENT, text) = 0 THEN "L194"
    ELSE IF strcmp(STARTUP_EVENT, text) = 0 THEN "L202"
    ELSE "L168"

\* The branch the if-else chain of lines 174-203 takes on a text.
Branch(text) ==
    IF strcmp(MSG_EVENT, text) = 0 THEN "L178"
    ELSE IF strcmp(OTA_OFFER_EVENT, text) = 0 THEN "L186"
    ELSE IF strcmp(OTA_VERIFIED_EVENT, text) = 0 THEN "L194"
    ELSE IF strcmp(STARTUP_EVENT, text) = 0 THEN "L202"
    ELSE "L205"

\* strcmp(pattern, NULL) reads through the null pointer: the read faults, or
\* it returns bytes that are none of the patterns.
NullBranches == {"fault", "L205"}

\* Lines 174-198: the descriptor is compared with the four patterns.
Classify ==
    /\ pc = "L174"
    /\ IF response = NULL
       THEN pc' \in NullBranches
       ELSE pc' = Branch(Deref(response))
    /\ pass' = [pass EXCEPT !.classified = TRUE]
    /\ UNCHANGED <<config, outstanding, globals, drain_result, wire, status,
                   counters, passes>>

\* An action command of the chain: sent once, its outcome not looked at.
Action(at, cmd) ==
    /\ pc = at
    /\ \/ /\ at_send(cmd)
          /\ pass' = [pass EXCEPT !.actions = Append(@, cmd)]
          /\ UNCHANGED <<pc, result>>
       \/ \E reply \in Replies :
             /\ at_receive(cmd, reply)
             /\ result' = at_command_outcome(reply, NULL).result
             /\ pc' = "L205"
             /\ UNCHANGED <<pass, lastReply>>
    /\ UNCHANGED <<config, gpio_intr_flag, response, drain_result, status,
                   counters, passes>>

\* Line 178.
GetMessage == Action("L178", AT_GET)

\* Line 186.
OtaAccept == Action("L186", AT_OTA_ACCEPT)

\* Line 194.
OtaApply == Action("L194", AT_OTA_APPLY)

\* SystemReset as a call that returns: the pass goes on to line 205.
SystemReset_returns ==
    /\ pc = "L202"
    /\ pc' = "L205"
    /\ UNCHANGED <<config, outstanding, globals, drain_result, wire, status,
                   counters, loop>>

\* Line 202: NVIC_SystemReset(); the program starts again, its globals
\* initialised anew.
SystemReset ==
    /\ pc = "L202"
    /\ resets < MaxResets
    /\ resets' = resets + 1
    /\ log' = <<>>
    /\ pc' = "L86"
    /\ outstanding' = NoCmd
    /\ gpio_intr_flag' = FALSE
    /\ result' = 0
    /\ response' = NULL
    /\ drain_result' = 0
    /\ awsReads' = <<>>
    /\ wifiReads' = <<>>
    /\ polls' = 0
    /\ drains' = 0
    /\ pass' = NoPass
    /\ passes' = 0
    /\ interrupts' = 0
    /\ lastReply' = NULL
    /\ UNCHANGED <<config, unserved>>

\* Line 205: gpio_intr_flag = false.
ClearFlag ==
    /\ pc = "L205"
    /\ gpio_intr_flag' = FALSE
    /\ pc' = "L168"
    /\ pass' = [pass EXCEPT !.cleared = TRUE]
    /\ UNCHANGED <<config, outstanding, result, response, drain_result, wire,
                   status, counters, passes>>

\* ------------------------------------------------------- the interrupt
\* Lines 247-250, on a rising edge of the event pin (enabled at line 95).
\* gpio_interrupt_handler that queries the event queue itself.
gpio_interrupt_handler_querying ==
    /\ pc \notin {"L86", "fault"}
    /\ interrupts < MaxIntr
    /\ gpio_intr_flag' = TRUE
    /\ interrupts' = interrupts + 1
    /\ unserved' = TRUE
    /\ log' = Append(log, AT_EVENT)
    /\ outstanding' = AT_EVENT
    /\ UNCHANGED <<config, pc, result, response, drain_result,
                   lastReply, status, polls, drains, resets, loop>>

gpio_interrupt_handler ==
    /\ pc \notin {"L86", "fault"}
    /\ interrupts < MaxIntr
    /\ gpio_intr_flag' = TRUE
    /\ interrupts' = interrupts + 1
    /\ unserved' = TRUE
    /\ UNCHANGED <<config, pc, outstanding, result, response, drain_result,
                   log, lastReply, status, polls, drains, resets, loop>>

\* ------------------------------------------------------------ the system
MainThread ==
    \/ Boot \/ CheckAws \/ SetEndpoint \/ CheckWifi
    \/ Connect \/ CheckConnect \/ ConnectLegacy \/ CloudSync \/ ConnectDelay
    \/ WaitAws \/ SetTopic \/ Subscribe
    \/ ConfMode \/ WaitWifi \/ PollingDelay \/ SetSsid \/ SetPassphrase
    \/ DrainEntry \/ DrainTest \/ DrainQuery
    \/ ObserveFlag \/ EventQuery \/ Classify
    \/ GetMessage \/ OtaAccept \/ OtaApply \/ SystemReset \/ ClearFlag

Next == MainThread \/ gpio_interrupt_handler

Spec == Init /\ [][Next]_vars

\* The main thread runs whenever it can: it is the only thread, and every
\* call of at_command_send_receive ends, by a reply or by the timeout.
FairSpec == Spec /\ WF_vars(MainThread)

\* ------------------------------------------------------------ vocabulary
MainLoopPcs == {"L168", "L171", "L174", "L178", "L186", "L194", "L202", "L205"}

\* How often cmd is in the log.
Count(cmd) == Cardinality({i \in DOMAIN log : log[i] = cmd})

Sent(cmd) == Count(cmd) > 0

\* A step of the main thread, and a step of the interrupt callback.
MainStep == pc' # pc \/ outstanding' # outstanding

CallbackStep == interrupts' = interrupts + 1

\* A step within one execution of the program: no host reset.
SameBoot == resets' = resets

\* ------------------------------------------------------------------- C1
\* C1: within one execution the flag goes from false to true only by a step
\* of gpio_interrupt_handler, and from true to false only by line 205 of the
\* main loop, at the end of a pass that began with the flag observed true,
\* sent its event query, compared the reply and completed its action; the
\* main thread never sets the flag and the callback never clears it.
C1_FlagDiscipline ==
    [][ /\ (~gpio_intr_flag /\ gpio_intr_flag') => (CallbackStep /\ ~MainStep)
        /\ (gpio_intr_flag /\ ~gpio_intr_flag' /\ SameBoot) =>
               /\ pc = "L205" /\ pc' = "L168"
               /\ ~CallbackStep
               /\ outstanding = NoCmd
               /\ pass.observed /\ pass.queries = 1 /\ pass.classified
               /\ Len(pass.actions) <= 1
        /\ MainStep => ~(~gpio_intr_flag /\ gpio_intr_flag')
        /\ CallbackStep => gpio_intr_flag'
      ]_vars

\* A pass has cleared the flag that an interrupt had set.
C1_Witness ==
    /\ pass.cleared
    /\ ~gpio_intr_flag
    /\ interrupts >= 1
    /\ pc = "L168"

\* ------------------------------------------------------------------- C2
\* The branch and the action command the table of the specification gives
\* for a reply text, by equality of the whole text.
TableBranch(text) ==
    IF text = MSG_EVENT THEN "L178"
    ELSE IF text = OTA_OFFER_EVENT THEN "L186"
    ELSE IF text = OTA_VERIFIED_EVENT THEN "L194"
    ELSE IF text = STARTUP_EVENT THEN "L202"
    ELSE "L205"

TableActions(text) ==
    IF text = MSG_EVENT THEN <<AT_GET>>
    ELSE IF text = OTA_OFFER_EVENT THEN <<AT_OTA_ACCEPT>>
    ELSE IF text = OTA_VERIFIED_EVENT THEN <<AT_OTA_APPLY>>
    ELSE <<>>

\* C2: once the reply text of the main-loop event query is classified, what
\* the pass does is fixed by equality with the whole text: the one action
\* command of the table is the next command sent, the startup descriptor
\* leads to the reset, and every other text (a proper prefix of a pattern,
\* a pattern followed by more text) leads to no command and no reset.
C2_ExactDispatch ==
    (pass.classified /\ response # NULL) =>
        LET text == Deref(response)
            done == pc \in {"L205", "L168"}
        IN  /\ ~done => pc = TableBranch(text)
            /\ done => /\ text # STARTUP_EVENT
                       /\ pass.actions = TableActions(text)
            /\ pass.actions \in {<<>>, TableActions(text)}
            /\ outstanding # NoCmd => <<outstanding>> = TableActions(text)
            /\ SubSeq(log, Len(log) - Len(pass.actions), Len(log))
                   = <<AT_EVENT>> \o pass.actions

\* The message descriptor was answered by one AT+GET1.
C2_Witness ==
    /\ pc = "L205"
    /\ response = Ptr(MSG_EVENT)
    /\ pass.actions = <<AT_GET>>
    /\ outstanding = NoCmd

\* ------------------------------------------------------------------- C3
\* C3: a pass sends exactly one event query and at most one action (an
\* action command or the reset); on an empty reply or one that matches no
\* pattern the pass sends nothing more and changes only the flag.
C3_TotalExclusive ==
    /\ [](/\ pass.queries <= 1
          /\ (pass.classified \/ pass.cleared) => pass.queries = 1
          /\ Len(pass.actions) <= 1
          /\ pc = "L202" => pass.actions = <<>>)
    /\ [][ /\ ( /\ pc = "L174" /\ MainStep
                /\ response # NULL /\ Deref(response) \notin Patterns ) =>
                   /\ pc' = "L205"
                   /\ UNCHANGED <<globals, outstanding, drain_result, log>>
           /\ ( /\ pc = "L205" /\ MainStep /\ pass.actions = <<>> ) =>
                   /\ pc' = "L168"
                   /\ ~gpio_intr_flag'
                   /\ UNCHANGED <<result, response, outstanding,
                                  drain_result, log>>
         ]_vars

\* A pass on the empty reply has ended with no command but the query.
C3_Witness ==
    /\ pass.cleared
    /\ response = Ptr(<<>>)
    /\ pass.queries = 1
    /\ pass.actions = <<>>

\* ------------------------------------------------------------------- C4
\* The statements from the first status query to the end of the drain.
ProvisioningPcs ==
    {"L109", "L113", "L116", "L122", "L124", "L159", "L161", "L227", "L231",
     "L233", "L239", "L242", "L254", "L256", "L258"}

CloudAlreadyConnected == awsReads # <<>> /\ awsReads[1]

\* C4 as claimed: in the primary flow, after the first cloud status query
\* has read connected, none of endpoint-set, SSID-set, passphrase-set,
\* topic-set and AT+CONNECT is sent.
C4_AsClaimed ==
    (AWS_FLOW /\ CloudAlreadyConnected) =>
        /\ ~Sent(SET_ENDPOINT) /\ ~Sent(SET_SSID) /\ ~Sent(SET_PASSPHRASE)
        /\ ~Sent(AT_TOPIC) /\ ~Sent(AT_CONNECT)

\* C4: in the primary flow, after the first cloud status query has read
\* connected, none of endpoint-set, SSID-set, passphrase-set and AT+CONNECT
\* is sent and no Wi-Fi status is queried; topic-set and AT+SUBSCRIBE1 are
\* still sent, and they are all that precedes the drain.
C4_Idempotent ==
    (AWS_FLOW /\ CloudAlreadyConnected) =>
        /\ ~Sent(SET_ENDPOINT) /\ ~Sent(SET_SSID) /\ ~Sent(SET_PASSPHRASE)
        /\ ~Sent(AT_CONNECT) /\ ~Sent(WIFI_STATUS) /\ ~Sent(HANDLE_ERROR)
        /\ pc \in {"L254", "L256", "L258"} \cup MainLoopPcs =>
               SubSeq(log, 1, 3) = <<AWS_STATUS, AT_TOPIC, AT_SUBSCRIBE>>

\* The main loop is entered after a first cloud status of connected.
C4_Witness ==
    /\ AWS_FLOW
    /\ awsReads = <<TRUE>>
    /\ pc = "L168"
    /\ Sent(AT_TOPIC)

\* ------------------------------------------------------------------- C5
WifiAlreadyConnected == wifiReads # <<>> /\ wifiReads[1]

\* The statements after the connect command of line 122 has ended.
AfterConnectPcs ==
    {"L124", "L159", "L161", "L254", "L256", "L258", "halt", "fault"}
      \cup MainLoopPcs

\* C5: in the primary flow SSID-set and passphrase-set are sent only after
\* the cloud status and then the Wi-Fi status have read not connected; with
\* the cloud connected, none of SSID-set, passphrase-set and AT+CONNECT is
\* sent; with the cloud not connected and Wi-Fi connected, AT+CONNECT is
\* sent exactly once and SSID-set and passphrase-set are not sent.
C5_OnboardingOnlyWhenNeeded ==
    AWS_FLOW =>
        /\ (Sent(SET_SSID) \/ Sent(SET_PASSPHRASE)) =>
               /\ awsReads = <<FALSE>>
               /\ wifiReads = <<FALSE>>
        /\ CloudAlreadyConnected =>
               Count(SET_SSID) + Count(SET_PASSPHRASE) + Count(AT_CONNECT) = 0
        /\ (awsReads = <<FALSE>> /\ WifiAlreadyConnected) =>
               /\ Count(SET_SSID) + Count(SET_PASSPHRASE) = 0
               /\ Count(AT_CONNECT) <= 1
               /\ pc \in AfterConnectPcs => Count(AT_CONNECT) = 1

\* Cloud not connected, Wi-Fi connected: the main loop is reached after one
\* AT+CONNECT and no onboarding command.
C5_Witness ==
    /\ AWS_FLOW
    /\ awsReads = <<FALSE>>
    /\ wifiReads = <<TRUE>>
    /\ pc = "L168"
    /\ Count(AT_CONNECT) = 1

\* ------------------------------------------------------------------- C6
\* C6: in the primary flow, when AT+CONNECT ends with anything but the reply
\* "OK 1 CONNECTED\r\n" (another reply, or the timeout), handle_error is
\* called, once, and nothing is sent after it: no topic-set, no subscribe,
\* no event query.
C6_ConnectFailureIsFatal ==
    /\ [][ ( /\ pc = "L124" /\ MainStep
             /\ lastReply # Ptr(CONNECTED_REPLY) ) =>
                /\ pc' = "halt"
                /\ log' = Append(log, HANDLE_ERROR)
         ]_vars
    /\ [](Sent(HANDLE_ERROR) =>
             /\ pc = "halt"
             /\ outstanding = NoCmd
             /\ Count(HANDLE_ERROR) = 1
             /\ log[Len(log)] = HANDLE_ERROR
             /\ log[Len(log) - 1] = AT_CONNECT
             /\ ~Sent(AT_TOPIC) /\ ~Sent(AT_SUBSCRIBE) /\ ~Sent(AT_EVENT))
    /\ [](pc = "halt" => Sent(HANDLE_ERROR))

\* The connect timed out and handle_error was called.
C6_Witness ==
    /\ AWS_FLOW
    /\ pc = "halt"
    /\ lastReply = NULL
    /\ Count(HANDLE_ERROR) = 1

\* ------------------------------------------------------------------- C7
\* The drain loop has just taken the idle-queue reply "OK\r\n".
DrainGotIdle == pc = "L256" /\ drains >= 1 /\ lastReply = Ptr(IDLE_REPLY)

\* C7: the drain loop ends exactly on the reply "OK\r\n" to one of its
\* queries: it is left only after that reply, after any other reply or a
\* timeout it goes on to the next query, once the reply has come the loop
\* ends and the main loop is entered, and when the first reply is "OK\r\n"
\* the drain has sent exactly one query.
C7_DrainEndsOnIdle ==
    /\ [][ /\ (pc = "L256" /\ pc' = "L168") =>
                 (drains >= 1 /\ lastReply = Ptr(IDLE_REPLY))
           /\ (pc = "L256" /\ MainStep /\ drains >= 1
                  /\ lastReply # Ptr(IDLE_REPLY)) => pc' = "L258"
           /\ (drains' = drains + 1) =>
                 (drains = 0 \/ lastReply # Ptr(IDLE_REPLY))
           /\ (drains = 1 /\ SameBoot /\ lastReply' = Ptr(IDLE_REPLY)) =>
                 drains' = 1
         ]_vars
    /\ [](pc \in MainLoopPcs =>
             (drains >= 1 /\ lastReply = Ptr(IDLE_REPLY)))
    /\ (DrainGotIdle ~> pc = "L168")

\* The first reply was "OK\r\n" and the main loop is entered after one query.
C7_Witness ==
    /\ pc = "L168"
    /\ drains = 1
    /\ lastReply = Ptr(IDLE_REPLY)
    /\ Count(AT_EVENT) = 1

\* ------------------------------------------------------------------- C8
\* C8: on the reply "OK 2 0 STARTUP\r\n" to the main-loop event query the
\* host reset is the next thing the pass does: no command is sent between
\* the reply and the reset, the pass never reaches line 205, and the flag,
\* still true at the reset, is false afterwards by its initialisation.
C8_StartupResets ==
    /\ [][ /\ (pc = "L174" /\ MainStep /\ response = Ptr(STARTUP_EVENT)) =>
                 (pc' = "L202" /\ UNCHANGED <<log, outstanding, globals>>)
           /\ (pc = "L202" /\ (MainStep \/ log' # log)) =>
                 /\ resets' = resets + 1
                 /\ pc' = "L86"
                 /\ gpio_intr_flag /\ ~gpio_intr_flag'
                 /\ response' = NULL
         ]_vars
    /\ [](pc = "L202" =>
             /\ response = Ptr(STARTUP_EVENT)
             /\ gpio_intr_flag
             /\ ~pass.cleared
             /\ pass.actions = <<>>
             /\ outstanding = NoCmd
             /\ log[Len(log)] = AT_EVENT)

\* The host has been reset and starts anew with the flag false.
C8_Witness ==
    /\ resets = 1
    /\ pc = "L86"
    /\ ~gpio_intr_flag
    /\ response = NULL

\* ------------------------------------------------------------------- C9
\* C9: a main-loop event query that times out (null body) is handled like a
\* reply that matches no pattern: no action command, no reset, the flag is
\* cleared and the loop waits for the next interrupt.
C9_TimeoutIsNoMatch ==
    (pass.classified /\ response = NULL) =>
        /\ pc \in {"L205", "L168"}
        /\ pass.actions = <<>>
        /\ pc = "L168" => pass.cleared

\* ------------------------------------------------------------------ C10
\* The run is cut short for a reason that is not the race on the flag: a
\* bound of the model is reached, the read through the null pointer has
\* faulted, or the main loop is left.
Stopped ==
    \/ passes = MaxPass
    \/ interrupts = MaxIntr
    \/ pc = "L202"
    \/ pc = "fault"
    \/ pc \notin MainLoopPcs

\* C10: every interrupt raised while the main loop runs, also one raised
\* between the event query and the clearing of the flag, is followed by a
\* later AT+EVENT? query.
C10_NoLostInterrupt ==
    (unserved /\ pc \in MainLoopPcs) ~> (~unserved \/ Stopped)

\* ------------------------------------------------------------------ C11
Min(a, b) == IF a <= b THEN a ELSE b

\* n drain queries.
DrainQueries(n) == [i \in 1 .. n |-> AT_EVENT]

\* s and t agree as far as both go.
Agree(s, t) ==
    SubSeq(s, 1, Min(Len(s), Len(t))) = SubSeq(t, 1, Min(Len(s), Len(t)))

\* Primary flow, direct credentials, both status queries read not connected
\* and the fatal path not taken.
DirectCase ==
    /\ AWS_FLOW /\ ~CIRRENT_APP_ONBOARDING
    /\ awsReads = <<FALSE>> /\ wifiReads = <<FALSE>>
    /\ pc # "halt"

\* The six commands in the order the claim gives them.
ClaimedSequence ==
    <<SET_ENDPOINT, SET_SSID, SET_PASSPHRASE, AT_CONNECT, AT_TOPIC,
      AT_SUBSCRIBE>>

\* What main() sends in that case up to the drain.
DirectSequence ==
    <<AWS_STATUS, SET_ENDPOINT, WIFI_STATUS, SET_SSID, SET_PASSPHRASE,
      AT_CONNECT, AT_TOPIC, AT_SUBSCRIBE>>

\* C11 as claimed: after the cloud status query the module gets endpoint-set,
\* SSID-set, passphrase-set, AT+CONNECT, topic-set, AT+SUBSCRIBE1 with
\* nothing in between.
C11_AsClaimed ==
    DirectCase => Agree(SubSeq(log, 2, Len(log)), ClaimedSequence)

\* C11: in that case the module gets, in this order and with nothing else in
\* between, the cloud status query, endpoint-set, the Wi-Fi status query,
\* SSID-set, passphrase-set, AT+CONNECT, topic-set, AT+SUBSCRIBE1, the
\* drain's AT+EVENT? queries (at least one) and only then the first command
\* of the main loop, an AT+EVENT?; a command is sent only when the one
\* before it has ended.
C11_ProvisioningOrder ==
    /\ [](DirectCase =>
             LET expected == DirectSequence \o DrainQueries(drains)
             IN  /\ Agree(log, expected)
                 /\ pc \in MainLoopPcs =>
                        /\ drains >= 1
                        /\ Len(log) >= Len(expected)
                        /\ Len(log) > Len(expected) =>
                               log[Len(expected) + 1] = AT_EVENT)
    /\ [][ (Len(log') > Len(log) /\ DirectCase /\ DirectCase') =>
               /\ outstanding = NoCmd
               /\ outstanding' = log'[Len(log')]
         ]_vars

\* The first event query of the main loop is out, after two drain queries.
C11_Witness ==
    /\ DirectCase
    /\ pc = "L171"
    /\ outstanding = AT_EVENT
    /\ drains = 2
    /\ Len(log) = 11

\* ------------------------------------------------------------------ C12
\* The commands of the primary flow whose outcome main() does not look at.
Unchecked ==
    {SET_ENDPOINT, SET_SSID, SET_PASSPHRASE, AT_TOPIC, AT_SUBSCRIBE, AT_GET,
     AT_OTA_ACCEPT, AT_OTA_APPLY}

\* The statement that follows each of them in the primary flow.
Successor(at) ==
    CASE at = "L113" -> "L116"
      [] at = "L239" -> "L242"
      [] at = "L242" -> "L122"
      [] at = "L159" -> "L161"
      [] at = "L161" -> "L254"
      [] at \in {"L178", "L186", "L194"} -> "L205"

\* C12: in the primary flow the end of an unchecked command, success or
\* failure, leads to the same next statement and never to handle_error;
\* handle_error is called exactly when AT+CONNECT was sent and ended with
\* anything but success.
C12_OnlyConnectIsFatal ==
    /\ [][ (AWS_FLOW /\ outstanding \in Unchecked /\ outstanding' = NoCmd) =>
               /\ pc' = Successor(pc)
               /\ log' = log
               /\ result' \in {SUCCESS, FAILURE}
         ]_vars
    /\ [](AWS_FLOW =>
             /\ Sent(HANDLE_ERROR) =>
                    /\ log[Len(log) - 1] = AT_CONNECT
                    /\ lastReply # Ptr(CONNECTED_REPLY)
                    /\ result = FAILURE
             /\ (pc = "L124" /\ lastReply # Ptr(CONNECTED_REPLY)) =>
                    result # SUCCESS
             /\ (pc \in {"L159", "L161", "L254"} /\ Sent(AT_CONNECT)) =>
                    lastReply = Ptr(CONNECTED_REPLY)
             /\ (pc \in AfterConnectPcs \ {"L124", "halt"}) =>
                    ~Sent(HANDLE_ERROR))
    /\ [](~AWS_FLOW => ~Sent(HANDLE_ERROR))

\* The subscribe command has timed out after a connect that succeeded, and
\* the flow has gone on to the drain.
C12_Witness ==
    /\ AWS_FLOW
    /\ pc = "L254"
    /\ result = FAILURE
    /\ Sent(AT_CONNECT)
    /\ ~Sent(HANDLE_ERROR)

\* ------------------------------------------------------------------ C13
\* The event queries the main loop has sent in this boot.
MainLoopQueries == Count(AT_EVENT) - drains

\* C13: the main loop sends a command only with the flag true: an event
\* query goes out only in a pass that began with the flag observed true,
\* each pass takes an interrupt raised since the flag was last cleared (or
\* since the start), and so the main loop's event queries never outnumber
\* the interrupts raised.
C13_QueryOnlyOnInterrupt ==
    /\ [][ /\ (pc \in MainLoopPcs /\ Len(log') > Len(log)) =>
                 (gpio_intr_flag /\ pass.observed /\ interrupts >= 1)
           /\ (pc = "L168" /\ MainStep) =>
                 (gpio_intr_flag /\ pc' = "L171" /\ passes' = passes + 1)
           /\ (pc = "L168" /\ ~gpio_intr_flag) =>
                 (pc' = "L168" /\ log' = log /\ outstanding' = NoCmd)
         ]_vars
    /\ [](/\ MainLoopQueries <= passes
          /\ passes <= interrupts
          /\ pc \in MainLoopPcs \ {"L168"} => gpio_intr_flag
          /\ (pc = "L168" /\ ~gpio_intr_flag) => outstanding = NoCmd)

\* The second event query of the main loop is out, after two interrupts.
C13_Witness ==
    /\ pc = "L171"
    /\ outstanding = AT_EVENT
    /\ MainLoopQueries = 2
    /\ interrupts = 2

\* ------------------------------------------------------------------ C14
DrainPcs == {"L254", "L256", "L258"}

ActionCommands == {AT_GET, AT_OTA_ACCEPT, AT_OTA_APPLY}

\* C14: the drain sends event queries and nothing else, whatever the replies
\* are: no action command, no reset, and the replies are dropped (response
\* is not written). What the main loop dispatches is the reply to its own
\* last event query, so a descriptor the drain has taken is never
\* dispatched; the drain is left with the queue read empty.
C14_DrainDispatchesNothing ==
    /\ [](pc \in DrainPcs =>
             /\ \A c \in ActionCommands : ~Sent(c)
             /\ response = NULL
             /\ pass = NoPass
             /\ outstanding \in {NoCmd, AT_EVENT})
    /\ [][ /\ (pc \in DrainPcs /\ MainStep) =>
                 /\ SameBoot
                 /\ pc' \in DrainPcs \cup {"L168"}
                 /\ Len(log') > Len(log) => log'[Len(log')] = AT_EVENT
                 /\ pc' = "L168" => lastReply = Ptr(IDLE_REPLY)
           /\ (Len(log') > Len(log) /\ log'[Len(log')] \in ActionCommands) =>
                 /\ pc \in {"L178", "L186", "L194"}
                 /\ pass.queries = 1
                 /\ log[Len(log)] = AT_EVENT
                 /\ response # NULL
                 /\ <<log'[Len(log')]>> = TableActions(Deref(response))
           /\ (response' # response /\ SameBoot) =>
                 (pc = "L171" /\ outstanding = AT_EVENT)
           /\ ~SameBoot => (pc = "L202" /\ pass.queries = 1)
         ]_vars

\* The drain has taken the message descriptor and goes on to its next
\* query, nothing dispatched.
C14_Witness ==
    /\ pc = "L258"
    /\ outstanding = AT_EVENT
    /\ drains = 2
    /\ lastReply = Ptr(MSG_EVENT)
    /\ ~Sent(AT_GET)

\* ------------------------------------------------------------------ C15
\* C15: at most one command is outstanding: a command is sent only when none
\* is outstanding and is then the outstanding one, and the next is sent
\* only after it has ended. A step of the interrupt handler sets the flag
\* and changes nothing else of the program: it sends nothing, does not
\* move the main thread and does not end the outstanding command, also
\* when a command is waiting for its reply.
C15_OneOutstanding ==
    [][ /\ (Len(log') > Len(log) /\ log'[Len(log')] # HANDLE_ERROR) =>
              /\ outstanding = NoCmd
              /\ outstanding' = log'[Len(log')]
              /\ Len(log') = Len(log) + 1
        /\ outstanding' # outstanding =>
              /\ (outstanding = NoCmd) # (outstanding' = NoCmd)
              /\ outstanding = NoCmd => Len(log') = Len(log) + 1
              /\ ~CallbackStep
        /\ CallbackStep =>
              /\ gpio_intr_flag'
              /\ UNCHANGED <<config, pc, outstanding, result, response,
                             drain_result, log, lastReply, status, resets>>
      ]_vars

\* The interrupt has fired while the event query of the main loop waits for
\* its reply.
C15_Witness ==
    /\ pc = "L171"
    /\ outstanding = AT_EVENT
    /\ interrupts = 2
    /\ passes = 1
    /\ unserved
    /\ gpio_intr_flag

\* ------------------------------------------------------------------ C16
CredentialCommands == {SET_SSID, SET_PASSPHRASE}

\* C16: in the direct-credentials strategy the SSID-set command is sent
\* first and the passphrase-set command directly after it, each of the two
\* waits for the generic success reply "OK\r\n" (its status is the outcome
\* of the call against that reply), and the cloud-connect command follows
\* the passphrase-set command with no Wi-Fi status query in between.
C16_AwaitsAcknowledgment ==
    ~CIRRENT_APP_ONBOARDING =>
        /\ \A i \in DOMAIN log :
              /\ log[i] = SET_PASSPHRASE => (i > 1 /\ log[i - 1] = SET_SSID)
              /\ (log[i] = SET_SSID /\ i < Len(log)) =>
                    log[i + 1] = SET_PASSPHRASE
              /\ (log[i] = SET_PASSPHRASE /\ i < Len(log)) =>
                    log[i + 1] = AT_CONNECT
        /\ (/\ Len(log) > 0
            /\ log[Len(log)] \in CredentialCommands
            /\ outstanding = NoCmd) =>
              result = at_command_outcome(lastReply, Ptr(IDLE_REPLY)).result

\* ------------------------------------------------------------------ C17
Last(s) == s[Len(s)]

ReadConnected(reads) == reads # <<>> /\ Last(reads)

\* C17: in the legacy flow, after a first cloud query that read not
\* connected, AT+CLOUD_SYNC directly follows AT+CONNECT, the delay of line
\* 151 follows with nothing sent, and from then on only cloud-status
\* queries are sent until one reads connected; the fatal path is never
\* taken, whatever the outcomes of the commands. The topic-set command is
\* sent only after a cloud-status query that read connected (all queries
\* before it read not connected) and is sent once one has; while the
\* queries read not connected the flow stays in the loop of line 153.
C17_LegacyFlow ==
    /\ [](~AWS_FLOW =>
             /\ ~Sent(HANDLE_ERROR)
             /\ pc # handle_error_pc
             /\ \A i \in DOMAIN log :
                   /\ (log[i] = AT_CONNECT /\ i < Len(log)) =>
                         log[i + 1] = AT_CLOUD_SYNC
                   /\ log[i] = AT_CLOUD_SYNC =>
                         (i > 1 /\ log[i - 1] = AT_CONNECT)
                   /\ (log[i] = AT_CLOUD_SYNC /\ i < Len(log)) =>
                         log[i + 1] = AWS_STATUS
                   /\ (log[i] = AWS_STATUS /\ i > 1 /\ i < Len(log)) =>
                         log[i + 1] \in {AWS_STATUS, AT_TOPIC}
                   /\ log[i] = AT_TOPIC =>
                         (i > 1 /\ log[i - 1] = AWS_STATUS)
             /\ Count(AT_CONNECT) <= 1
             /\ Sent(AT_CONNECT) => (awsReads # <<>> /\ ~awsReads[1])
             /\ (Sent(AT_TOPIC) /\ ~awsReads[1]) => Sent(AT_CLOUD_SYNC)
             /\ Sent(AT_TOPIC) =>
                   /\ ReadConnected(awsReads)
                   /\ \A i \in 1..(Len(awsReads) - 1) : ~awsReads[i]
             /\ pc = "L153" => \A i \in DOMAIN awsReads : ~awsReads[i])
    /\ [][ ~AWS_FLOW =>
              /\ (pc = "L151" /\ MainStep) =>
                    (pc' = "L153" /\ log' = log /\ outstanding' = NoCmd)
              /\ (pc = "L153" /\ MainStep) =>
                    /\ pc' \in {"L153", "L159"}
                    /\ Len(log') > Len(log) => Last(log') = AWS_STATUS
                    /\ pc' = "L159" <=>
                          (Len(awsReads') > Len(awsReads) /\ Last(awsReads'))
                    /\ Len(awsReads') > Len(awsReads) =>
                          outstanding = AWS_STATUS
        ]_vars
    /\ ((~AWS_FLOW /\ ReadConnected(awsReads)) ~> Sent(AT_TOPIC))

\* The first query and the first one of the loop read not connected, the
\* second one of the loop reads connected, AT+CLOUD_SYNC has failed, and
\* the topic-set command is sent.
C17_Witness ==
    /\ ~AWS_FLOW
    /\ awsReads = <<FALSE, FALSE, TRUE>>
    /\ result = FAILURE
    /\ pc = "L159"
    /\ outstanding = AT_TOPIC

\* ------------------------------------------------------------------ C18
\* C18: in the companion-app strategy AT+CONFMODE is followed by Wi-Fi
\* status queries only, one per round of the loop of line 231 with the
\* delay of line 233 between two of them, and the loop has no exit but a
\* query that reads connected: AT+CONNECT is sent only after such a read,
\* and as long as no query has read connected nothing but status queries
\* is sent after AT+CONFMODE. The credentials commands are not sent.
C18_CompanionAppPolling ==
    /\ [](CIRRENT_APP_ONBOARDING =>
             /\ \A i \in DOMAIN log :
                   /\ log[i] = AT_CONFMODE =>
                         /\ i > 1 /\ log[i - 1] = WIFI_STATUS
                         /\ ~wifiReads[1]
                         /\ i < Len(log) => log[i + 1] = WIFI_STATUS
                         /\ ~ReadConnected(wifiReads) =>
                               \A j \in (i + 1)..Len(log) :
                                  log[j] = WIFI_STATUS
             /\ Count(AT_CONFMODE) <= 1
             /\ Sent(AT_CONNECT) => ReadConnected(wifiReads)
             /\ Len(wifiReads) > 1 => Sent(AT_CONFMODE)
             /\ \A i \in 1..(Len(wifiReads) - 1) : ~wifiReads[i]
             /\ \A c \in CredentialCommands : ~Sent(c)
             /\ pc \in {"L227", "L231", "L233"} =>
                   \A i \in DOMAIN wifiReads : ~wifiReads[i])
    /\ [][ CIRRENT_APP_ONBOARDING =>
              /\ (pc = "L231" /\ MainStep) =>
                    /\ pc' \in {"L231", "L233", AfterOnboarding}
                    /\ Len(log') > Len(log) => Last(log') = WIFI_STATUS
                    /\ pc' = AfterOnboarding <=>
                          (Len(wifiReads') > Len(wifiReads)
                             /\ Last(wifiReads'))
                    /\ pc' = "L233" <=>
                          (Len(wifiReads') > Len(wifiReads)
                             /\ ~Last(wifiReads'))
              /\ (pc = "L233" /\ MainStep) =>
                    (pc' = "L231" /\ log' = log /\ outstanding' = NoCmd)
        ]_vars

\* Two rounds of the loop: the query before AT+CONFMODE and the first one
\* of the loop read not connected, the second one of the loop reads
\* connected, and AT+CONNECT is sent.
C18_Witness ==
    /\ CIRRENT_APP_ONBOARDING
    /\ wifiReads = <<FALSE, FALSE, TRUE>>
    /\ Count(WIFI_STATUS) = 3
    /\ outstanding = AT_CONNECT

\* ------------------------------------------------------------------ C19
\* The main loop is entered and no pass has begun.
AtLoopEntry == pc = "L168" /\ passes = 0

\* The frame part of C19: before the first pass the flag is true exactly
\* if the interrupt was raised in this boot, and no step of the main
\* thread outside the main loop writes it.
C19_Frame ==
    /\ []((pc \notin MainLoopPcs \/ AtLoopEntry) =>
             (pc # "fault" => gpio_intr_flag = (interrupts > 0)))
    /\ [][ (MainStep /\ pc \notin MainLoopPcs) =>
              gpio_intr_flag' = gpio_intr_flag ]_vars
    /\ [][ (AtLoopEntry /\ MainStep) =>
              /\ gpio_intr_flag
              /\ pc' = "L171"
              /\ lastReply = Ptr(IDLE_REPLY) ]_vars

\* C19: the provisioning flow and the drain never write the flag, so it is
\* true at the entry of the main loop exactly if an interrupt was raised
\* before; and then the first pass sends one event query, although the
\* drain has just read the queue empty, and clears the flag.
C19_FlagSurvivesProvisioning ==
    /\ C19_Frame
    /\ ((AtLoopEntry /\ gpio_intr_flag) ~>
           (MainLoopQueries = 1 /\ outstanding = AT_EVENT))
    /\ ((AtLoopEntry /\ gpio_intr_flag) ~> ~gpio_intr_flag)

\* ------------------------------------------------------------------ C20
MainLoopCommands == {AT_EVENT, AT_GET, AT_OTA_ACCEPT, AT_OTA_APPLY}

\* C20: once the main loop is entered, every command sent is one of
\* AT+EVENT?, AT+GET1, AT+OTA ACCEPT and AT+OTA APPLY, no status query is
\* made, the fatal path is not taken, and the main thread stays in the
\* main loop: it leaves it only by the host reset of line 202, on the
\* startup descriptor.
C20_MainLoopIsClosed ==
    [][ /\ (pc \in MainLoopPcs /\ Len(log') > Len(log)) =>
              Last(log') \in MainLoopCommands
        /\ pc \in MainLoopPcs => pc' # handle_error_pc
        /\ (pc \in MainLoopPcs /\ SameBoot) => pc' \in MainLoopPcs
        /\ (pc \in MainLoopPcs /\ ~SameBoot) =>
              (pc = "L202" /\ response = Ptr(STARTUP_EVENT))
      ]_vars

=============================================================================
